---- MODULE Spec2Model ----
(***************************************************************************)
(* Model of src/process-scenes.py: the per-scene pipeline (process_scene)  *)
(* with its three stages (images_to_video, run_colmap_converter,           *)
(* create_fiftyone_scene) and the parallel batch                           *)
(* (process_all_scenes_parallel) that maps it over the scene directories   *)
(* with a multiprocessing Pool.                                            *)
(*                                                                         *)
(* The file system is the set of derived files that exist.  The source     *)
(* layout of every scene (images/ tree) is an input that never changes.    *)
(* Every external call (ffmpeg, colmap, the Open3D codec, os.remove, the   *)
(* FiftyOne serializer) returns normally or raises; which one is an input  *)
(* of the step that makes the call.                                        *)
(***************************************************************************)
EXTENDS Integers, Sequences, FiniteSets, TLC

\* ---------------------------------------------------------------- bounds
NumScenes == 2
NumViews == 2
MaxRuns == 2
MaxCpu == 3

Scenes == 1..NumScenes
Views == 1..NumViews

\* ----------------------------------------------------------------- paths
\* A path is <<scene, file kind, view>>; None is Python's None.
None == <<0, "None", 0>>
VideoPath(s, v) == <<s, "mp4", v>>
\* A mutant: colmap's --output_path is its --input_path.
PlyPathIsInputPath(s) == <<s, "rig", 0>>
PlyPath(s) == <<s, "ply", 0>>
PcdPath(s) == <<s, "pcd", 0>>
Fo3dPath(s) == <<s, "fo3d", 0>>
\* The source tree: <scene>/colmap_sparse/rig and <scene>/images/<view>/*.jpeg
InputPath(s) == <<s, "rig", 0>>
ImagePath(s, v) == <<s, "jpeg", v>>

\* What an entry of <scene>/images/ can be.
EntryKinds == {"none", "file", "empty_dir", "jpeg_dir"}

\* What an entry of the base directory can be: absent, a directory or a plain
\* file whose name starts with 'scene_', a directory with another name.
BaseKinds == {"none", "scene_dir", "scene_file", "other_dir"}

\* --process: choices=['all', 'videos', 'colmap', 'fiftyone']
ProcessTypes == {"all", "videos", "colmap", "fiftyone"}

VARIABLES
    base_dir,        \* base_dir[e]: kind of entry e of the base directory
    process_type,    \* the --process argument of this run
    layout,          \* layout[s]: [images_exists, entries: view -> kind]
    ffmpeg_present,  \* the ffmpeg executable is on PATH
    colmap_present,  \* the colmap executable is on PATH
    cpu,             \* cpu_count()
    scene_paths,     \* the discovered scene directories, in os.listdir order
    disk,            \* the derived files that exist
    pc,              \* pc[s]: where the worker of scene s is
    pending,         \* pending[s]: entries of images/ not yet iterated
    video_paths,     \* video_paths[s]: the local list of process_scene
    pcd_path,        \* pcd_path[s]: what run_colmap_converter returned
    enc,             \* enc[s][v]: outcome of images_to_video on view v
    conv,            \* conv[s]: outcome of run_colmap_converter
    desc,            \* desc[s]: outcome of create_fiftyone_scene
    results,         \* the pool's result list, one slot per task
    completed,       \* the scenes in the order their workers completed
    batch,           \* "running", "returned" or "raised"
    all_video_paths, \* the aggregate video list
    all_fo3d_paths,  \* the aggregate descriptor list
    run,             \* number of the current run of the batch
    prev,            \* what the previous run did and left
    handed,          \* handed[e]: times entry e was handed to a worker
    written          \* the paths this run created, overwrote or removed

env == <<base_dir, process_type, layout, ffmpeg_present, colmap_present, cpu,
         scene_paths>>
worker == <<pc, pending, video_paths, pcd_path, enc, conv, desc>>
pool == <<results, completed, batch, all_video_paths, all_fo3d_paths>>
vars == <<env, disk, worker, pool, run, prev, handed, written>>

\* ------------------------------------------------------------- helpers
Range(f) == {f[i] : i \in DOMAIN f}

Discovered == Range(scene_paths)

IndexOf(s) == CHOOSE i \in DOMAIN scene_paths : scene_paths[i] = s

\* os.path.isdir(os.path.join(base_dir, scene_dir))
IsDirEntry(k) == k \in {"scene_dir", "other_dir"}

\* scene_dir.startswith('scene_')
HasPrefix(k) == k \in {"scene_dir", "scene_file"}

\* A mutant: the os.path.isdir test is dropped from the filter.
MatchesPrefixOnly(k) == HasPrefix(k)

\* The filter of the comprehension over os.listdir(base_dir).
Matches(k) == IsDirEntry(k) /\ HasPrefix(k)

\* The comprehension from entry i on; entries are numbered in listing order.
RECURSIVE ScenePathsFrom(_, _)
ScenePathsFrom(b, i) ==
    IF i > NumScenes THEN <<>>
    ELSE (IF Matches(b[i]) THEN <<i>> ELSE <<>>) \o ScenePathsFrom(b, i + 1)

\* get_scene_paths(data_dir), and the same list in
\* process_all_scenes_parallel.
GetScenePaths(b) == ScenePathsFrom(b, 1)

NoResult == [set |-> FALSE, raised |-> FALSE, videos |-> <<>>, fo3d |-> None]

\* ------------------------------------------------ outcomes of the tools
\* ffmpeg: absent from PATH, or it exits zero or non-zero.  It has nothing
\* to encode, and exits non-zero, when the glob <view>/*.jpeg matches nothing.
EncoderOutcomes(s, v) ==
    IF ~ffmpeg_present THEN {"absent"}
    ELSE IF layout[s].entries[v] = "jpeg_dir" THEN {"ok", "nonzero"}
    ELSE {"nonzero"}

\* colmap absent, colmap exits non-zero, read_point_cloud raises,
\* write_point_cloud raises, os.remove raises, or every call returns.
ConverterOutcomes ==
    IF ~colmap_present THEN {"absent"}
    ELSE {"nonzero", "readfail", "writefail", "removefail", "ok"}

\* scene.write returns or raises.
DescriptorOutcomes == {"ok", "fail"}

\* ------------------------------------------------------------ the stages
\* A mutant: 'check=True' dropped, so a non-zero exit is reported as success.
ImagesToVideoUnchecked(fs, s, v, out) ==
    IF out = "absent"
    THEN [raised |-> TRUE, ret |-> FALSE, fs |-> fs]
    ELSE [raised |-> FALSE, ret |-> TRUE,
          fs |-> IF out = "ok" THEN fs \cup {VideoPath(s, v)} ELSE fs]

\* A mutant: '-y' dropped, so ffmpeg refuses to overwrite an existing output.
ImagesToVideoNoOverwrite(fs, s, v, out) ==
    IF out = "absent"
    THEN [raised |-> TRUE, ret |-> FALSE, fs |-> fs]
    ELSE IF out = "ok" /\ VideoPath(s, v) \notin fs
    THEN [raised |-> FALSE, ret |-> TRUE, fs |-> fs \cup {VideoPath(s, v)}]
    ELSE [raised |-> FALSE, ret |-> FALSE, fs |-> fs]

\* images_to_video(view_path, video_path): subprocess.run raises
\* FileNotFoundError when ffmpeg is absent, and only CalledProcessError (a
\* non-zero exit) is caught.
ImagesToVideo(fs, s, v, out) ==
    IF out = "absent"
    THEN [raised |-> TRUE, ret |-> FALSE, fs |-> fs]
    ELSE IF out = "ok"
    THEN [raised |-> FALSE, ret |-> TRUE, fs |-> fs \cup {VideoPath(s, v)}]
    ELSE [raised |-> FALSE, ret |-> FALSE, fs |-> fs]

\* A mutant: only CalledProcessError is caught.
RunColmapConverterNarrowExcept(fs, s, out) ==
    IF out = "nonzero"
    THEN [raised |-> FALSE, ret |-> None, fs |-> fs]
    ELSE IF out = "absent"
    THEN [raised |-> TRUE, ret |-> None, fs |-> fs]
    ELSE IF out = "readfail" \/ out = "writefail"
    THEN [raised |-> TRUE, ret |-> None, fs |-> fs \cup {PlyPath(s)}]
    ELSE IF out = "removefail"
    THEN [raised |-> TRUE, ret |-> None,
          fs |-> fs \cup {PlyPath(s), PcdPath(s)}]
    ELSE [raised |-> FALSE, ret |-> PcdPath(s),
          fs |-> (fs \cup {PcdPath(s)}) \ {PlyPath(s)}]

\* A mutant: the intermediate file is not removed.
RunColmapConverterKeepPly(fs, s, out) ==
    IF out = "absent" \/ out = "nonzero"
    THEN [raised |-> FALSE, ret |-> None, fs |-> fs]
    ELSE IF out = "readfail" \/ out = "writefail"
    THEN [raised |-> FALSE, ret |-> None, fs |-> fs \cup {PlyPath(s)}]
    ELSE IF out = "removefail"
    THEN [raised |-> FALSE, ret |-> None,
          fs |-> fs \cup {PlyPath(s), PcdPath(s)}]
    ELSE [raised |-> FALSE, ret |-> PcdPath(s),
          fs |-> fs \cup {PlyPath(s), PcdPath(s)}]

\* A mutant: model.ply is removed on the failure paths too (a 'finally').
RunColmapConverterAlwaysClean(fs, s, out) ==
    IF out = "absent" \/ out = "nonzero"
    THEN [raised |-> FALSE, ret |-> None, fs |-> fs]
    ELSE IF out = "readfail" \/ out = "writefail"
    THEN [raised |-> FALSE, ret |-> None, fs |-> fs \ {PlyPath(s)}]
    ELSE IF out = "removefail"
    THEN [raised |-> FALSE, ret |-> None,
          fs |-> fs \cup {PlyPath(s), PcdPath(s)}]
    ELSE [raised |-> FALSE, ret |-> PcdPath(s),
          fs |-> (fs \cup {PcdPath(s)}) \ {PlyPath(s)}]

\* run_colmap_converter(scene_path): colmap writes model.ply, Open3D reads it
\* and writes <scene>.pcd, os.remove deletes model.ply; the first call that
\* raises ends the try block and the function returns None.
RunColmapConverter(fs, s, out) ==
    IF out = "absent" \/ out = "nonzero"
    THEN [raised |-> FALSE, ret |-> None, fs |-> fs]
    ELSE IF out = "readfail" \/ out = "writefail"
    THEN [raised |-> FALSE, ret |-> None, fs |-> fs \cup {PlyPath(s)}]
    ELSE IF out = "removefail"
    THEN [raised |-> FALSE, ret |-> None,
          fs |-> fs \cup {PlyPath(s), PcdPath(s)}]
    ELSE [raised |-> FALSE, ret |-> PcdPath(s),
          fs |-> (fs \cup {PcdPath(s)}) \ {PlyPath(s)}]

\* create_fiftyone_scene(pcd_path): everything is inside the try block;
\* os.path.dirname(None) raises TypeError there, and so does a failing write.
CreateFiftyoneScene(fs, p, out) ==
    IF p = None \/ out = "fail"
    THEN [raised |-> FALSE, ret |-> None, fs |-> fs]
    ELSE [raised |-> FALSE, ret |-> Fo3dPath(p[1]),
          fs |-> fs \cup {Fo3dPath(p[1])}]

\* The path images_to_video has ffmpeg write: its output_video_path.
ImagesToVideoWrites(s, v, out) ==
    IF out = "ok" THEN {VideoPath(s, v)} ELSE {}

\* The paths run_colmap_converter writes or removes: colmap's --output_path,
\* the target of write_point_cloud, the argument of os.remove.
RunColmapConverterWrites(s, out) ==
    IF out = "absent" \/ out = "nonzero" THEN {}
    ELSE IF out = "readfail" \/ out = "writefail" THEN {PlyPath(s)}
    ELSE {PlyPath(s), PcdPath(s)}

\* The path create_fiftyone_scene has scene.write write.
CreateFiftyoneSceneWrites(p, out) ==
    IF p = None \/ out = "fail" THEN {} ELSE {Fo3dPath(p[1])}

\* A mutant: os.listdir(images_dir) without the os.path.exists test.
ListImagesUnchecked(s) ==
    [raised |-> ~layout[s].images_exists,
     entries |-> {v \in Views : layout[s].entries[v] # "none"}]

\* process_scene: 'if os.path.exists(images_dir): for view_folder in
\* os.listdir(images_dir)'; a missing images/ gives nothing to iterate.
ListImages(s) ==
    [raised |-> FALSE,
     entries |-> IF layout[s].images_exists
                 THEN {v \in Views : layout[s].entries[v] # "none"}
                 ELSE {}]

\* os.path.isdir(view_path)
IsDir(s, v) == layout[s].entries[v] \in {"empty_dir", "jpeg_dir"}

\* A mutant: the descriptor stage runs whatever the converter returned.
ShortCircuitNever(p) == FALSE

\* process_scene: 'if not pcd_path: return video_paths, None'
ShortCircuit(p) == p = None

\* A mutant: the 'videos' and 'colmap' branches of main are swapped.
BranchSwapped(t) ==
    IF t = "videos" THEN "colmap" ELSE IF t = "colmap" THEN "videos" ELSE t

\* main: the if/elif chain on process_type names the branch that runs.
Branch(t) ==
    IF t = "all" THEN "all"
    ELSE IF t = "videos" THEN "videos"
    ELSE IF t = "colmap" THEN "colmap"
    ELSE IF t = "fiftyone" THEN "fiftyone"
    ELSE "invalid"

\* ------------------------------------------------------------- the pool
\* A mutant: results are kept in completion order (imap_unordered).
PoolStoreUnordered(rs, i, r) ==
    LET k == CHOOSE j \in DOMAIN rs :
                 /\ ~rs[j].set
                 /\ \A m \in DOMAIN rs : m < j => rs[m].set
    IN [rs EXCEPT ![k] = r]

\* pool.map puts the result of task i in slot i of its result list.
PoolStore(rs, i, r) == [rs EXCEPT ![i] = r]

\* num_processes = max(1, cpu_count() - 1)
NumProcesses == IF cpu - 1 > 1 THEN cpu - 1 ELSE 1

Running == {s \in Discovered : pc[s] \in {"views", "colmap", "fo3d"}}

Finished == {s \in Discovered : pc[s] \in {"done", "raised"}}

\* The loop of process_all_scenes_parallel over the results.
RECURSIVE AllVideos(_)
AllVideos(rs) ==
    IF rs = <<>> THEN <<>> ELSE Head(rs).videos \o AllVideos(Tail(rs))

\* A mutant: 'if fo3d_path' is dropped, so None is appended too.
RECURSIVE AllFo3dUnfiltered(_)
AllFo3dUnfiltered(rs) ==
    IF rs = <<>> THEN <<>>
    ELSE <<Head(rs).fo3d>> \o AllFo3dUnfiltered(Tail(rs))

RECURSIVE AllFo3d(_)
AllFo3d(rs) ==
    IF rs = <<>> THEN <<>>
    ELSE (IF Head(rs).fo3d # None THEN <<Head(rs).fo3d>> ELSE <<>>)
         \o AllFo3d(Tail(rs))

\* ------------------------------------------------------------- initial
NoEntries == [v \in Views |-> "none"]

NoImages == [images_exists |-> FALSE, entries |-> NoEntries]

\* The images/ tree of a scene: absent, or a directory whose entries are
\* plain files, view folders without a .jpeg and view folders with some.
Layouts ==
    {NoImages} \cup
    {[images_exists |-> TRUE, entries |-> e] : e \in [Views -> EntryKinds]}

NoEnc == [v \in Views |-> "none"]

NoPrev ==
    [valid |-> FALSE, pc |-> [s \in Scenes |-> "queued"],
     enc |-> [s \in Scenes |-> NoEnc], conv |-> [s \in Scenes |-> "none"],
     desc |-> [s \in Scenes |-> "none"], videos |-> [s \in Scenes |-> {}],
     fo3d |-> [s \in Scenes |-> None], disk |-> {}]

\* The state of the workers and of the pool when a batch starts.
StartBatch ==
    /\ pc = [s \in Scenes |-> "queued"]
    /\ pending = [s \in Scenes |-> {}]
    /\ video_paths = [s \in Scenes |-> <<>>]
    /\ pcd_path = [s \in Scenes |-> None]
    /\ enc = [s \in Scenes |-> NoEnc]
    /\ conv = [s \in Scenes |-> "none"]
    /\ desc = [s \in Scenes |-> "none"]
    /\ results = [i \in DOMAIN scene_paths |-> NoResult]
    /\ completed = <<>>
    /\ batch = "running"
    /\ all_video_paths = <<>>
    /\ all_fo3d_paths = <<>>
    /\ handed = [e \in Scenes |-> 0]
    /\ written = {}

\* What the script finds when it starts: the tools, the cores, a clean tree.
Environment ==
    /\ \A s \in Scenes \ Range(scene_paths) : layout[s] = NoImages
    /\ ffmpeg_present \in BOOLEAN
    /\ colmap_present \in BOOLEAN
    /\ cpu \in 1..MaxCpu
    /\ disk = {}
    /\ run = 1
    /\ prev = NoPrev

\* A base directory that holds one scene, of any layout; --process all.
Init ==
    /\ base_dir \in {[e \in Scenes |-> IF e = s THEN "scene_dir" ELSE "none"] :
                       s \in Scenes}
    /\ scene_paths = GetScenePaths(base_dir)
    /\ process_type = "all"
    /\ layout \in [Scenes -> Layouts]
    /\ Environment
    /\ StartBatch

\* The images/ tree of a scene: absent, or one view folder that holds images.
OneViewLayouts ==
    {NoImages} \cup
    {[images_exists |-> TRUE, entries |-> [NoEntries EXCEPT ![v] = "jpeg_dir"]] :
        v \in Views}

\* A base directory that holds any number of scenes, of any of these layouts;
\* the scenes are numbered in the order in which os.listdir yields them.
InitBatch ==
    /\ base_dir \in {[e \in Scenes |-> IF e <= n THEN "scene_dir" ELSE "none"] :
                       n \in 0..NumScenes}
    /\ scene_paths = GetScenePaths(base_dir)
    /\ process_type = "all"
    /\ layout \in [Scenes -> OneViewLayouts]
    /\ Environment
    /\ StartBatch

\* What earlier runs of the script left in a scene directory: nothing, the
\* point cloud of a 'colmap' run, or the files of a complete run followed by
\* a conversion that failed after colmap wrote model.ply.
LeftKinds == {"clean", "converted", "complete"}

LeftBehind(s, k) ==
    IF k = "clean" THEN {}
    ELSE IF k = "converted" THEN {PcdPath(s)}
    ELSE {VideoPath(s, 1), PlyPath(s), PcdPath(s), Fo3dPath(s)}

\* main on a machine with one core, with any --process argument, on a base
\* directory that earlier runs have worked on.
InitMain ==
    /\ base_dir \in {[e \in Scenes |-> IF e <= n THEN "scene_dir" ELSE "none"] :
                       n \in 0..NumScenes}
    /\ scene_paths = GetScenePaths(base_dir)
    /\ process_type \in ProcessTypes
    /\ layout \in [Scenes -> {NoImages,
          [images_exists |-> TRUE,
           entries |-> [NoEntries EXCEPT ![1] = "jpeg_dir"]]}]
    /\ \A s \in Scenes \ Range(scene_paths) : layout[s] = NoImages
    /\ ffmpeg_present \in BOOLEAN
    /\ colmap_present \in BOOLEAN
    /\ cpu = 1
    /\ \E k \in [Scenes -> LeftKinds] :
         disk = UNION {LeftBehind(s, k[s]) : s \in Range(scene_paths)}
    /\ run = 1
    /\ prev = [NoPrev EXCEPT !.disk = disk]
    /\ StartBatch

\* A base directory with entries of every kind; a scene holds no images/ or
\* one view folder with images.
InitDiscover ==
    /\ base_dir \in [Scenes -> BaseKinds]
    /\ scene_paths = GetScenePaths(base_dir)
    /\ process_type = "all"
    /\ layout \in [Scenes -> {NoImages,
          [images_exists |-> TRUE,
           entries |-> [NoEntries EXCEPT ![1] = "jpeg_dir"]]}]
    /\ Environment
    /\ StartBatch

\* ------------------------------------------------------------- workers
\* The worker of scene s ends: its result, or its exception, goes to the pool.
Finish(s, raised, videos, fo3d) ==
    /\ pc' = [pc EXCEPT ![s] = IF raised THEN "raised" ELSE "done"]
    /\ results' = PoolStore(results, IndexOf(s),
                      [set |-> TRUE, raised |-> raised,
                       videos |-> videos, fo3d |-> fo3d])
    /\ completed' = Append(completed, s)
    /\ UNCHANGED <<batch, all_video_paths, all_fo3d_paths>>

\* A free pool worker takes the next task: process_scene starts, tests
\* images/ and lists it.
Dispatch(s) ==
    /\ Branch(process_type) = "all"
    /\ batch = "running"
    /\ pc[s] = "queued"
    /\ s \in Discovered
    /\ \A t \in Discovered : IndexOf(t) < IndexOf(s) => pc[t] # "queued"
    /\ Cardinality(Running) < NumProcesses
    /\ LET l == ListImages(s) IN
       IF l.raised
       THEN /\ Finish(s, TRUE, <<>>, None)
            /\ UNCHANGED pending
       ELSE /\ pending' = [pending EXCEPT ![s] = l.entries]
            /\ pc' = [pc EXCEPT ![s] =
                         IF l.entries = {} THEN "colmap" ELSE "views"]
            /\ UNCHANGED pool
    /\ handed' = [handed EXCEPT ![s] = @ + 1]
    /\ UNCHANGED <<env, disk, video_paths, pcd_path, enc, conv, desc, run, prev,
                   written>>

\* One iteration of 'for view_folder in os.listdir(images_dir)'.
ProcessView(s) ==
    /\ pc[s] = "views"
    /\ \E v \in pending[s] :
         /\ pending' = [pending EXCEPT ![s] = @ \ {v}]
         /\ IF ~IsDir(s, v)
            THEN /\ pc' = [pc EXCEPT ![s] =
                              IF pending'[s] = {} THEN "colmap" ELSE "views"]
                 /\ UNCHANGED <<disk, video_paths, enc, pool, written>>
            ELSE \E out \in EncoderOutcomes(s, v) :
                   LET r == ImagesToVideo(disk, s, v, out) IN
                   /\ disk' = r.fs
                   /\ written' = written \cup ImagesToVideoWrites(s, v, out)
                   /\ enc' = [enc EXCEPT ![s][v] = out]
                   /\ IF r.raised
                      THEN /\ Finish(s, TRUE, <<>>, None)
                           /\ UNCHANGED video_paths
                      ELSE /\ video_paths' = [video_paths EXCEPT ![s] =
                                  IF r.ret THEN Append(@, VideoPath(s, v))
                                  ELSE @]
                           /\ pc' = [pc EXCEPT ![s] =
                                  IF pending'[s] = {} THEN "colmap"
                                  ELSE "views"]
                           /\ UNCHANGED pool
    /\ UNCHANGED <<env, pcd_path, conv, desc, run, prev, handed>>

\* 'pcd_path = run_colmap_converter(scene_path)' and the test on it.
Convert(s) ==
    /\ pc[s] = "colmap"
    /\ \E out \in ConverterOutcomes :
         LET r == RunColmapConverter(disk, s, out) IN
         /\ disk' = r.fs
         /\ written' = written \cup RunColmapConverterWrites(s, out)
         /\ conv' = [conv EXCEPT ![s] = out]
         /\ pcd_path' = [pcd_path EXCEPT ![s] = r.ret]
         /\ IF r.raised
            THEN Finish(s, TRUE, <<>>, None)
            ELSE IF ShortCircuit(r.ret)
            THEN Finish(s, FALSE, video_paths[s], None)
            ELSE /\ pc' = [pc EXCEPT ![s] = "fo3d"]
                 /\ UNCHANGED pool
    /\ UNCHANGED <<env, pending, video_paths, enc, desc, run, prev, handed>>

\* 'fo3d_path = create_fiftyone_scene(pcd_path)' and the two returns after it.
Describe(s) ==
    /\ pc[s] = "fo3d"
    /\ \E out \in DescriptorOutcomes :
         LET r == CreateFiftyoneScene(disk, pcd_path[s], out) IN
         /\ disk' = r.fs
         /\ written' = written \cup CreateFiftyoneSceneWrites(pcd_path[s], out)
         /\ desc' = [desc EXCEPT ![s] = out]
         /\ Finish(s, r.raised, video_paths[s], r.ret)
    /\ UNCHANGED <<env, pending, video_paths, pcd_path, enc, conv, run, prev,
                   handed>>

\* ---------------------------------------------------------------- batch
\* pool.map returns once every task has ended: it re-raises the exception
\* of a task that raised, otherwise the results are aggregated.
PoolMapReturn ==
    /\ batch = "running"
    /\ Finished = Discovered
    /\ IF \E i \in DOMAIN results : results[i].raised
       THEN /\ batch' = "raised"
            /\ UNCHANGED <<all_video_paths, all_fo3d_paths>>
       ELSE /\ batch' = "returned"
            /\ all_video_paths' = AllVideos(results)
            /\ all_fo3d_paths' = AllFo3d(results)
    /\ Branch(process_type) = "all"
    /\ UNCHANGED <<env, disk, worker, results, completed, run, prev, handed,
                   written>>

\* A new run of the script starts: nothing is kept in memory.
ResetRun ==
    /\ run' = run + 1
    /\ pc' = [s \in Scenes |-> "queued"]
    /\ pending' = [s \in Scenes |-> {}]
    /\ video_paths' = [s \in Scenes |-> <<>>]
    /\ pcd_path' = [s \in Scenes |-> None]
    /\ enc' = [s \in Scenes |-> NoEnc]
    /\ conv' = [s \in Scenes |-> "none"]
    /\ desc' = [s \in Scenes |-> "none"]
    /\ results' = [i \in DOMAIN scene_paths |-> NoResult]
    /\ completed' = <<>>
    /\ batch' = "running"
    /\ all_video_paths' = <<>>
    /\ all_fo3d_paths' = <<>>
    /\ handed' = [e \in Scenes |-> 0]
    /\ written' = {}
    /\ UNCHANGED disk

\* The operator runs the script again on the same directory.
Rerun ==
    /\ batch # "running"
    /\ run < MaxRuns
    /\ prev' = [valid |-> TRUE, pc |-> pc, enc |-> enc, conv |-> conv,
                desc |-> desc,
                videos |-> [s \in Scenes |-> Range(video_paths[s])],
                fo3d |-> [s \in Scenes |->
                            IF s \in Discovered
                            THEN results[IndexOf(s)].fo3d ELSE None],
                disk |-> disk]
    /\ ResetRun
    /\ UNCHANGED env

\* ------------------------------------------------- selective stage mode
\* The scene whose turn it is in a 'for scene_path in scene_paths' loop.
IsNext(s) ==
    /\ batch = "running"
    /\ s \in Discovered
    /\ pc[s] = "queued"
    /\ \A t \in Discovered : IndexOf(t) < IndexOf(s) => pc[t] = "done"

\* An exception leaves the loop and main: the run ends there.
Abort(s) ==
    /\ pc' = [pc EXCEPT ![s] = "raised"]
    /\ batch' = "raised"

\* 'videos': the images/ test and the listing, for the next scene.
SelectVideos(s) ==
    /\ Branch(process_type) = "videos"
    /\ IsNext(s)
    /\ LET l == ListImages(s) IN
       IF l.raised
       THEN /\ Abort(s)
            /\ UNCHANGED pending
       ELSE /\ pending' = [pending EXCEPT ![s] = l.entries]
            /\ pc' = [pc EXCEPT ![s] =
                         IF l.entries = {} THEN "done" ELSE "sel_views"]
            /\ UNCHANGED batch
    /\ UNCHANGED <<env, disk, video_paths, pcd_path, enc, conv, desc, results,
                   completed, all_video_paths, all_fo3d_paths, run, prev,
                   handed, written>>

\* 'videos': one iteration over the entries of images/.
SelectVideoView(s) ==
    /\ pc[s] = "sel_views"
    /\ \E v \in pending[s] :
         /\ pending' = [pending EXCEPT ![s] = @ \ {v}]
         /\ IF ~IsDir(s, v)
            THEN /\ pc' = [pc EXCEPT ![s] =
                              IF pending'[s] = {} THEN "done" ELSE "sel_views"]
                 /\ UNCHANGED <<disk, enc, batch, written>>
            ELSE \E out \in EncoderOutcomes(s, v) :
                   LET r == ImagesToVideo(disk, s, v, out) IN
                   /\ disk' = r.fs
                   /\ written' = written \cup ImagesToVideoWrites(s, v, out)
                   /\ enc' = [enc EXCEPT ![s][v] = out]
                   /\ IF r.raised
                      THEN Abort(s)
                      ELSE /\ pc' = [pc EXCEPT ![s] =
                                  IF pending'[s] = {} THEN "done"
                                  ELSE "sel_views"]
                           /\ UNCHANGED batch
    /\ UNCHANGED <<env, video_paths, pcd_path, conv, desc, results, completed,
                   all_video_paths, all_fo3d_paths, run, prev, handed>>

\* 'colmap': run_colmap_converter on the next scene.
SelectColmap(s) ==
    /\ Branch(process_type) = "colmap"
    /\ IsNext(s)
    /\ \E out \in ConverterOutcomes :
         LET r == RunColmapConverter(disk, s, out) IN
         /\ disk' = r.fs
         /\ written' = written \cup RunColmapConverterWrites(s, out)
         /\ conv' = [conv EXCEPT ![s] = out]
         /\ pcd_path' = [pcd_path EXCEPT ![s] = r.ret]
         /\ IF r.raised
            THEN Abort(s)
            ELSE /\ pc' = [pc EXCEPT ![s] = "done"]
                 /\ UNCHANGED batch
    /\ UNCHANGED <<env, pending, video_paths, enc, desc, results, completed,
                   all_video_paths, all_fo3d_paths, run, prev, handed>>

\* 'fiftyone': create_fiftyone_scene on the next scene if its .pcd exists.
SelectFiftyone(s) ==
    /\ Branch(process_type) = "fiftyone"
    /\ IsNext(s)
    /\ IF PcdPath(s) \in disk
       THEN \E out \in DescriptorOutcomes :
              LET r == CreateFiftyoneScene(disk, PcdPath(s), out) IN
              /\ disk' = r.fs
              /\ written' = written \cup
                               CreateFiftyoneSceneWrites(PcdPath(s), out)
              /\ desc' = [desc EXCEPT ![s] = out]
       ELSE UNCHANGED <<disk, written, desc>>
    /\ pc' = [pc EXCEPT ![s] = "done"]
    /\ UNCHANGED <<env, pending, video_paths, pcd_path, enc, conv, pool, run,
                   prev, handed>>

\* The loop of a selective branch is over and main returns.
MainReturn ==
    /\ Branch(process_type) \in {"videos", "colmap", "fiftyone"}
    /\ batch = "running"
    /\ \A s \in Discovered : pc[s] = "done"
    /\ batch' = "returned"
    /\ UNCHANGED <<env, disk, worker, results, completed, all_video_paths,
                   all_fo3d_paths, run, prev, handed, written>>

\* One run of process_all_scenes_parallel.
NextBatch ==
    \/ \E s \in Scenes : Dispatch(s)
    \/ \E s \in Scenes : ProcessView(s)
    \/ \E s \in Scenes : Convert(s)
    \/ \E s \in Scenes : Describe(s)
    \/ PoolMapReturn

Next ==
    \/ NextBatch
    \/ Rerun

Spec == Init /\ [][Next]_vars

SpecBatch == InitBatch /\ [][NextBatch]_vars

SpecDiscover == InitDiscover /\ [][NextBatch]_vars

\* Every call of an external tool returns, every pool worker keeps running
\* and the parent keeps waiting in pool.map.
Fairness ==
    /\ \A s \in Scenes :
         WF_vars(Dispatch(s) \/ ProcessView(s) \/ Convert(s) \/ Describe(s))
    /\ WF_vars(PoolMapReturn)

SpecBatchFair == SpecBatch /\ Fairness

\* main, run once with any --process argument.
NextMain ==
    \/ NextBatch
    \/ \E s \in Scenes : SelectVideos(s)
    \/ \E s \in Scenes : SelectVideoView(s)
    \/ \E s \in Scenes : SelectColmap(s)
    \/ \E s \in Scenes : SelectFiftyone(s)
    \/ MainReturn

SpecMain == InitMain /\ [][NextMain]_vars

\* =============================================================== claims
ResultOf(s) == results[IndexOf(s)]

Raised == {s \in Discovered : pc[s] = "raised"}

\* The view folders of scene s that hold at least one .jpeg.
JpegViews(s) == {v \in Views : layout[s].entries[v] = "jpeg_dir"}

\* The view folders of scene s on which ffmpeg exited zero in this run.
EncodedViews(s) == {v \in Views : enc[s][v] = "ok"}

\* C1: when the pipeline of exactly one discovered scene raises, the batch
\* still returns an aggregate, and that aggregate holds the video paths and
\* the descriptor path of every other scene.
C1_OneFailureIsolated ==
    (batch # "running" /\ Cardinality(Raised) = 1 /\ Discovered # Raised) =>
        /\ batch = "returned"
        /\ \A s \in Discovered \ Raised :
             /\ Range(ResultOf(s).videos) \subseteq Range(all_video_paths)
             /\ ResultOf(s).fo3d # None =>
                    ResultOf(s).fo3d \in Range(all_fo3d_paths)

\* C2: process_scene never raises, whatever the scene directory holds and
\* whatever the external tools do: every worker ends by returning a pair.
C2_ProcessSceneNeverRaises ==
    \A s \in Discovered :
        /\ pc[s] # "raised"
        /\ ResultOf(s).set => ~ResultOf(s).raised

\* C3: the descriptor writer is invoked only after the converter returned a
\* point-cloud path for the same scene in the same run; when the converter
\* returns None the descriptor writer is not invoked and process_scene
\* returns (video paths so far, None).
C3_DescriptorOnlyAfterPointCloud ==
    \A s \in Discovered :
        /\ desc[s] # "none" => conv[s] # "none" /\ pcd_path[s] = PcdPath(s)
        /\ (conv[s] # "none" /\ pcd_path[s] = None) =>
               /\ desc[s] = "none"
               /\ pc[s] = "done"
               /\ ResultOf(s) = [set |-> TRUE, raised |-> FALSE,
                                 videos |-> video_paths[s], fo3d |-> None]

\* C3 witness: the converter fails in a run that finds the point cloud of an
\* earlier run on disk, and process_scene returns without a descriptor.
C3_Witness ==
    \E s \in Discovered :
        /\ prev.valid /\ prev.conv[s] = "ok" /\ PcdPath(s) \in disk
        /\ conv[s] = "nonzero" /\ pc[s] = "done" /\ video_paths[s] # <<>>

\* C4: images_to_video reports every failure of the encoder, a non-zero exit
\* as well as an absent executable, by returning False; it never raises.
C4_ImagesToVideoNeverRaises ==
    \A s \in Discovered : \A v \in Views :
        enc[s][v] \in {"absent", "nonzero"} =>
            /\ pc[s] # "raised"
            /\ VideoPath(s, v) \notin Range(video_paths[s])

C7_ExactlyKVideos ==
    \A s \in Discovered :
        pc[s] = "done" =>
            /\ Len(video_paths[s]) = Cardinality(JpegViews(s))
            /\ Range(video_paths[s]) = {VideoPath(s, v) : v \in JpegViews(s)}

\* C7 (amended): when process_scene returns, its video list holds exactly one
\* path <scene>_<view>.mp4 per view folder on which the encoder exited zero,
\* each naming a file that exists; these views all hold a .jpeg, so there are
\* at most K paths, and exactly K when the encoder exited zero on every view
\* folder that holds a .jpeg.
C7_OneVideoPerEncodedView ==
    \A s \in Discovered :
        pc[s] = "done" =>
            /\ Len(video_paths[s]) = Cardinality(EncodedViews(s))
            /\ Range(video_paths[s]) = {VideoPath(s, v) : v \in EncodedViews(s)}
            /\ Range(video_paths[s]) \subseteq disk
            /\ EncodedViews(s) \subseteq JpegViews(s)
            /\ (\A v \in JpegViews(s) : enc[s][v] = "ok") =>
                   Len(video_paths[s]) = Cardinality(JpegViews(s))

\* C7 witness: two view folders, one of them with images, one video returned.
C7_Witness ==
    \E s \in Discovered :
        /\ pc[s] = "done"
        /\ Cardinality({v \in Views : IsDir(s, v)}) = 2
        /\ Cardinality(JpegViews(s)) = 1
        /\ Len(video_paths[s]) = 1

\* The aggregate that the per-scene results give in discovery order.
RECURSIVE VideosInOrder(_)
VideosInOrder(ss) ==
    IF ss = <<>> THEN <<>>
    ELSE video_paths[Head(ss)] \o VideosInOrder(Tail(ss))

RECURSIVE Fo3dInOrder(_)
Fo3dInOrder(ss) ==
    IF ss = <<>> THEN <<>>
    ELSE (IF desc[Head(ss)] = "ok" THEN <<Fo3dPath(Head(ss))>> ELSE <<>>)
         \o Fo3dInOrder(Tail(ss))

\* C8: the aggregate that process_all_scenes_parallel returns is fixed by the
\* discovery order and by what each scene's pipeline returned; the order in
\* which the workers complete has no part in it.
C8_AggregateIgnoresCompletionOrder ==
    batch = "returned" =>
        /\ all_video_paths = VideosInOrder(scene_paths)
        /\ all_fo3d_paths = Fo3dInOrder(scene_paths)

\* C8 witness: two scenes complete in the reverse of the discovery order and
\* both contribute a video and a descriptor to the aggregate.
C8_Witness ==
    /\ batch = "returned"
    /\ Len(scene_paths) >= 2
    /\ \A i \in DOMAIN scene_paths :
         completed[i] = scene_paths[Len(scene_paths) + 1 - i]
    /\ \A s \in Discovered : video_paths[s] # <<>> /\ desc[s] = "ok"

\* The tools did in this run what they did in the run before.
SameOutcomes == enc = prev.enc /\ conv = prev.conv /\ desc = prev.desc

\* C9: a second run on the unchanged scene directory, with the tools doing
\* what they did in the first, ends as the first did, returns the same set of
\* video paths and the same descriptor path, and leaves the same files.
C9_RerunIsIdempotent ==
    (prev.valid /\ batch # "running" /\ SameOutcomes) =>
        /\ disk = prev.disk
        /\ \A s \in Discovered :
             /\ pc[s] = prev.pc[s]
             /\ Range(video_paths[s]) = prev.videos[s]
             /\ ResultOf(s).fo3d = prev.fo3d[s]

\* C9 witness: a second run that repeats a first run which made a video, a
\* point cloud and a descriptor.
C9_Witness ==
    /\ prev.valid /\ batch = "returned" /\ SameOutcomes
    /\ \E s \in Discovered :
         /\ video_paths[s] # <<>>
         /\ ResultOf(s).fo3d = Fo3dPath(s)

\* C10: for a scene without images/ the video synthesizer is never invoked and
\* the video list is empty; the converter still runs and, when it succeeds,
\* so does the descriptor writer, so a scene whose reconstruction converts
\* and serializes ends with no video, one point cloud and one descriptor.
C10_MissingImagesIsNoError ==
    \A s \in Discovered :
        ~layout[s].images_exists =>
            /\ enc[s] = NoEnc
            /\ video_paths[s] = <<>>
            /\ pc[s] \notin {"views", "raised"}
            /\ pc[s] = "done" =>
                 /\ conv[s] # "none"
                 /\ conv[s] = "ok" => desc[s] # "none"
                 /\ (conv[s] = "ok" /\ desc[s] = "ok") =>
                      /\ ResultOf(s) = [set |-> TRUE, raised |-> FALSE,
                                        videos |-> <<>>, fo3d |-> Fo3dPath(s)]
                      /\ {f \in disk : f[1] = s} = {PcdPath(s), Fo3dPath(s)}

\* C10 witness: a scene without images/ ends with a descriptor.
C10_Witness ==
    \E s \in Discovered :
        /\ ~layout[s].images_exists
        /\ pc[s] = "done" /\ conv[s] = "ok" /\ desc[s] = "ok"

\* C11: in parallel batch mode an entry of the base directory is handed to a
\* worker at most once, only if it is a directory whose name starts with
\* 'scene_', and every such directory has been handed over, once, when the
\* batch ends; the discovered list names no directory twice.
C11_EachSceneHandedOnce ==
    /\ \A e \in Scenes :
         /\ handed[e] <= 1
         /\ handed[e] = 1 => base_dir[e] = "scene_dir"
         /\ pc[e] # "queued" => handed[e] = 1
         /\ (batch # "running" /\ base_dir[e] = "scene_dir") => handed[e] = 1
    /\ \A i, j \in DOMAIN scene_paths :
         scene_paths[i] = scene_paths[j] => i = j

\* C11 witness: the batch ended, a scene directory was handed to a worker
\* once and a plain file named scene_... beside it to none.
C11_Witness ==
    /\ batch = "returned"
    /\ \E e \in Scenes : base_dir[e] = "scene_dir" /\ handed[e] = 1
    /\ \E e \in Scenes : base_dir[e] = "scene_file" /\ handed[e] = 0

\* No file of one of these kinds was written or removed in this run: the ones
\* on disk are those the run found.
LeftAlone(kinds) ==
    /\ \A f \in written : f[2] \notin kinds
    /\ {f \in disk : f[2] \in kinds} = {f \in prev.disk : f[2] \in kinds}

\* C12: in selective stage mode only the named stage runs: 'videos' never
\* invokes the converter or the descriptor writer, 'colmap' never the video
\* synthesizer or the descriptor writer, 'fiftyone' never the video
\* synthesizer or the converter, and the files of the other stages stay as
\* the run found them, for every scene.
C12_OnlyTheNamedStageRuns ==
    /\ process_type = "videos" =>
         /\ \A s \in Scenes : conv[s] = "none" /\ desc[s] = "none"
         /\ LeftAlone({"ply", "pcd", "fo3d"})
    /\ process_type = "colmap" =>
         /\ \A s \in Scenes : enc[s] = NoEnc /\ desc[s] = "none"
         /\ LeftAlone({"mp4", "fo3d"})
    /\ process_type = "fiftyone" =>
         /\ \A s \in Scenes : enc[s] = NoEnc /\ conv[s] = "none"
         /\ LeftAlone({"mp4", "ply", "pcd"})

\* C12 witness: a 'videos' run after a run that left a point cloud and a
\* descriptor made a video and returned.
C12_Witness ==
    /\ process_type = "videos" /\ batch = "returned"
    /\ \E s \in Discovered :
         /\ PcdPath(s) \in prev.disk /\ Fo3dPath(s) \in prev.disk
         /\ \E v \in Views : enc[s][v] = "ok"

\* The source tree of the scenes: reconstruction input and images.
SourcePaths ==
    {InputPath(s) : s \in Scenes} \cup
    {ImagePath(s, v) : s \in Scenes, v \in Views}

\* C13: in every mode and whatever the tools do, the only paths a stage
\* writes or removes are <scene>_<view>.mp4 of a view folder, <scene>.pcd,
\* <scene>.fo3d and model.ply of a discovered scene; nothing under images/ or
\* colmap_sparse/rig is created, overwritten or deleted, and every file the
\* run added to or took from the disk is one of those paths.
C13_SourceTreeUntouched ==
    /\ written \cap SourcePaths = {}
    /\ (disk \ prev.disk) \cup (prev.disk \ disk) \subseteq written
    /\ \A f \in written :
         /\ f[1] \in Discovered
         /\ f[2] \in {"mp4", "pcd", "fo3d", "ply"}
         /\ f[2] = "mp4" => f[3] \in Views /\ IsDir(f[1], f[3])
         /\ f[2] # "mp4" => f[3] = 0

\* C13 witness: a run wrote a video, a point cloud, a descriptor and the
\* intermediate file of one scene.
C13_Witness ==
    \E s \in Discovered :
        /\ {PlyPath(s), PcdPath(s), Fo3dPath(s)} \subseteq written
        /\ \E v \in Views : VideoPath(s, v) \in written

\* The number of video paths the pipelines of these scenes returned.
RECURSIVE SumVideos(_)
SumVideos(ss) ==
    IF ss = <<>> THEN 0
    ELSE Len(ResultOf(Head(ss)).videos) + SumVideos(Tail(ss))

\* The descriptor paths the pipelines returned.
ReturnedFo3d == {ResultOf(s).fo3d : s \in Discovered} \ {None}

\* C14: the returned aggregate is exactly the combination of the per-scene
\* results: the video list holds every path some pipeline returned, nothing
\* else and nothing twice, the descriptor list exactly the non-null descriptor
\* paths, and the two totals are the sums over the scenes.
C14_AggregateIsExact ==
    batch = "returned" =>
        /\ Range(all_video_paths) =
               UNION {Range(ResultOf(s).videos) : s \in Discovered}
        /\ Len(all_video_paths) = SumVideos(scene_paths)
        /\ Cardinality(Range(all_video_paths)) = Len(all_video_paths)
        /\ Range(all_fo3d_paths) = ReturnedFo3d
        /\ Len(all_fo3d_paths) = Cardinality(ReturnedFo3d)

\* C14 witness: two scenes returned a video each, one of them a descriptor
\* and the other none.
C14_Witness ==
    /\ batch = "returned"
    /\ Len(all_video_paths) = 2
    /\ \E s, u \in Discovered :
         ResultOf(s).fo3d = Fo3dPath(s) /\ ResultOf(u).fo3d = None

C16_NullMeansNoPointCloudWritten ==
    \A s \in Discovered :
        (conv[s] # "none" /\ pcd_path[s] = None) => PcdPath(s) \notin written

\* C17: parallel batch mode ends by yielding one result, a pair, for each
\* discovered scene.
C17_EveryRunYieldsAllResults ==
    batch # "running" =>
        /\ batch = "returned"
        /\ \A i \in DOMAIN results : results[i].set /\ ~results[i].raised

\* The part of C17 that the code keeps: when every call of a tool returns,
\* parallel batch mode ends, by a return or by a raise.
C17_Terminates == <>(batch # "running")

\* A queued scene waits for a free worker and for nothing else.
C17_NoSceneWaitsOnAnother ==
    \A s \in Discovered :
        (batch = "running" /\ pc[s] = "queued"
           /\ Cardinality(Running) < NumProcesses
           /\ \A u \in Discovered : IndexOf(u) < IndexOf(s) => pc[u] # "queued")
        => ENABLED Dispatch(s)

====
